---- MODULE Spec2Model ----
(***************************************************************************)
(* Sustainability Tracker (src/app.py), local-storage mode (USE_SUPABASE   *)
(* is False): the user store users.json, one CSV entry file per user, the  *)
(* Streamlit session state of each browser session, the calendar clock,    *)
(* and the handlers of the onboarding and main views.                      *)
(*                                                                         *)
(* Numbers.  Habit values are non-negative numbers; pounds of CO2 are kept *)
(* in fixed point, one unit = 1/140 lb, so that every emission factor and  *)
(* the laundry term (difference / 7 * 2.5) is an exact integer.            *)
(***************************************************************************)
EXTENDS Integers, Sequences, FiniteSets, TLC

\* ------------------------------------------------------------------ bounds

\* Largest habit value of the calculator's input grid.
MaxVal == 1
\* Browser sessions.
NSessions == 2
\* The years a user may stay away: the clock may jump that many years ahead.
MaxYear == 1
\* The clock runs over days 0..MaxDay.
MaxDay == 2
\* The calendar, scaled down: days in an ISO week, ISO weeks in an ISO year.
DaysPerWeek == 2
WeeksPerYear == 2
\* Records the user store may hold, rows the entry files may hold together.
MaxUsers == 2
MaxRows == 2

\* ------------------------------------------------- emission factors (33-37)

\* 0.9 lb per mile, in 1/140 lb.
EF_MILE == 126
\* 0.05 lb per shower minute, in 1/140 lb.
EF_SHOWER == 7
\* 0.1 lb per plastic bottle, in 1/140 lb.
EF_PLASTIC == 14
\* 0.5 lb per takeout meal, in 1/140 lb.
EF_TAKEOUT == 70
\* 2.5 lb per laundry load, in 1/140 lb.
EF_LAUNDRY == 350

\* n tenths of a pound, in 1/140 lb.
Tenths(n) == n * 14

DailyFields == {"miles", "shower_minutes", "plastic_bottles"}
WeeklyFields == {"takeout_meals", "laundry_loads"}
Fields == DailyFields \cup WeeklyFields
EntryTypes == {"daily", "weekly"}

\* Python's max(a, b).
Max(a, b) == IF a >= b THEN a ELSE b

\* Python's dict.get(k, default).
Get(d, k, default) == IF k \in DOMAIN d THEN d[k] ELSE default

\* ------------------------------------------------------- CO2 calculation

\* A calculator that lets usage above the baseline count against the user.
calculate_co2_savings_noclamp(entry, baseline, entry_type) ==
    LET daily == (Get(baseline, "miles", 0) - Get(entry, "miles", 0)) * EF_MILE
               + (Get(baseline, "shower_minutes", 0) - Get(entry, "shower_minutes", 0)) * EF_SHOWER
               + (Get(baseline, "plastic_bottles", 0) - Get(entry, "plastic_bottles", 0)) * EF_PLASTIC
    IN  IF entry_type = "daily" THEN daily
        ELSE daily
           + (Get(baseline, "takeout_meals", 0) - Get(entry, "takeout_meals", 0)) * EF_TAKEOUT
           + ((Get(baseline, "laundry_loads", 0) - Get(entry, "laundry_loads", 0)) * EF_LAUNDRY) \div 7

\* A calculator whose mile factor is 0.8 lb.
calculate_co2_savings_factor(entry, baseline, entry_type) ==
    LET daily == Max(Get(baseline, "miles", 0) - Get(entry, "miles", 0), 0) * (EF_MILE - 14)
               + Max(Get(baseline, "shower_minutes", 0) - Get(entry, "shower_minutes", 0), 0) * EF_SHOWER
               + Max(Get(baseline, "plastic_bottles", 0) - Get(entry, "plastic_bottles", 0), 0) * EF_PLASTIC
    IN  IF entry_type = "daily" THEN daily
        ELSE daily
           + Max(Get(baseline, "takeout_meals", 0) - Get(entry, "takeout_meals", 0), 0) * EF_TAKEOUT
           + (Max(Get(baseline, "laundry_loads", 0) - Get(entry, "laundry_loads", 0), 0) * EF_LAUNDRY) \div 7

\* A calculator that takes the size of each difference, abs() for max(.., 0).
calculate_co2_savings_abs(entry, baseline, entry_type) ==
    LET Abs(x) == IF x >= 0 THEN x ELSE -x
        daily == Abs(Get(baseline, "miles", 0) - Get(entry, "miles", 0)) * EF_MILE
               + Abs(Get(baseline, "shower_minutes", 0) - Get(entry, "shower_minutes", 0)) * EF_SHOWER
               + Abs(Get(baseline, "plastic_bottles", 0) - Get(entry, "plastic_bottles", 0)) * EF_PLASTIC
    IN  IF entry_type = "daily" THEN daily
        ELSE daily
           + Abs(Get(baseline, "takeout_meals", 0) - Get(entry, "takeout_meals", 0)) * EF_TAKEOUT
           + (Abs(Get(baseline, "laundry_loads", 0) - Get(entry, "laundry_loads", 0)) * EF_LAUNDRY) \div 7

\* calculate_co2_savings (77-88).  The laundry term is max(..)/7*2.5; with
\* EF_LAUNDRY = 350 units the division by 7 is exact.
calculate_co2_savings(entry, baseline, entry_type) ==
    LET miles_saving ==
            Max(Get(baseline, "miles", 0) - Get(entry, "miles", 0), 0) * EF_MILE
        shower_saving ==
            Max(Get(baseline, "shower_minutes", 0) - Get(entry, "shower_minutes", 0), 0) * EF_SHOWER
        plastic_saving ==
            Max(Get(baseline, "plastic_bottles", 0) - Get(entry, "plastic_bottles", 0), 0) * EF_PLASTIC
        takeout_saving ==
            Max(Get(baseline, "takeout_meals", 0) - Get(entry, "takeout_meals", 0), 0) * EF_TAKEOUT
        laundry_saving ==
            (Max(Get(baseline, "laundry_loads", 0) - Get(entry, "laundry_loads", 0), 0) * EF_LAUNDRY) \div 7
    IN  IF entry_type = "daily"
        THEN miles_saving + shower_saving + plastic_saving
        ELSE miles_saving + shower_saving + plastic_saving + takeout_saving + laundry_saving

\* ------------------------------------------------------------ the values

\* Python's None as a password, as a profile id, as a table cell; an empty
\* CSV cell; pandas' NaN.
NoPassword == <<>>
NoProfile == "None"
NoneCell == -1
EmptyCell == -2
NaN == -3

\* What a file that cannot be parsed holds: an entry file on which
\* pd.read_csv raises, a users.json on which json.load raises.
Garbage == [bytes |-> "garbage"]
MalformedCsv == <<Garbage>>
MalformedJson == [k \in {<<"{">>} |-> Garbage]

\* A username is a sequence of characters (of tokens without a "/").
RegNames == {<<"a", "/", "b">>, <<"a", "_", "b">>, <<"bob">>}
\* f"guest-{adjective}-{noun}-{suffix}" (65-71) and f"guest-anon-{n}" (74).
FriendlyGuests == {<<"guest-", "green-sun-100">>}
AnonGuests == {<<"guest-", "anon-1000">>}
Passwords == {"pw", "other"}
Sessions == 1..NSessions
Days == 0..MaxDay

MkBaseline(m, s, p, t, l) ==
    [miles |-> m, shower_minutes |-> s, plastic_bottles |-> p,
     takeout_meals |-> t, laundry_loads |-> l]

\* The baseline of a new guest, and of a session whose record is missing.
DefaultBaseline == MkBaseline(5, 10, 2, 3, 3)
\* What the baseline forms may be submitted with.
FormBaselines == {DefaultBaseline, MkBaseline(2, 8, 1, 1, 10)}
\* What the daily form and the weekly inputs may be submitted with.
DailyInputs == {[miles |-> 2, shower_minutes |-> 8, plastic_bottles |-> 1]}
WeeklyInputs == {[takeout_meals |-> 1, laundry_loads |-> 0]}

\* hashlib.sha256(password.encode()).hexdigest(): injective on Passwords.
hash_password(password) == <<"sha256", password>>

\* username.replace("/", "_"), then DATA_DIR/<safe_name>_data.csv.
get_user_file_local(username) ==
    LET safe_name == [i \in 1..Len(username) |->
                         IF username[i] = "/" THEN "_" ELSE username[i]]
    IN  <<"user_data">> \o safe_name \o <<"_data.csv">>

\* ---------------------------------------------------------- the calendar

DaysPerYear == DaysPerWeek * WeeksPerYear

\* date.isoformat() and its parse by pd.to_datetime(..).dt.date.
isoformat(d) == [year |-> d \div DaysPerYear, yday |-> d % DaysPerYear]
to_date(iso) == iso.year * DaysPerYear + iso.yday

\* date.isocalendar(): ISO year and ISO week number (from 1).
isocalendar(d) ==
    [year |-> d \div DaysPerYear, week |-> ((d \div DaysPerWeek) % WeeksPerYear) + 1]

\* ------------------------------------------------------------- the state

VARIABLES
    users,      \* users.json: username -> [password, baseline, is_guest]
    files,      \* user_data/: path -> the rows of the CSV file at that path
    sess,       \* st.session_state of each session
    error,      \* the st.error text the latest step showed, "" when it showed none
    prev_guest, \* history: the guest username the session held when it logged out
    today,      \* date.today()
    run,        \* the script run of each session: its position and its locals
    calc        \* the calculator's last call: inputs and result

vars == <<users, files, sess, error, prev_guest, today, run, calc>>
app_vars == <<users, files, sess, error, prev_guest, today, run>>

\* session state defaults (155-158).
SessionDefaults ==
    [logged_in |-> FALSE, guest |-> FALSE, username |-> <<>>, profile_id |-> NoProfile]

\* One call of the calculator; before is the result of the call it is
\* compared with (its own result when there is none).
Call(entry, baseline, entry_type) ==
    [entry |-> entry, baseline |-> baseline, entry_type |-> entry_type,
     out |-> calculate_co2_savings(entry, baseline, entry_type),
     before |-> calculate_co2_savings(entry, baseline, entry_type)]

\* The example of the documentation: a daily entry against the default
\* daily baseline values.
ExampleCall ==
    Call([miles |-> 2, shower_minutes |-> 8, plastic_bottles |-> 1],
         [miles |-> 5, shower_minutes |-> 10, plastic_bottles |-> 2], "daily")

InitApp ==
    /\ users = << >>
    /\ files = << >>
    /\ sess = [s \in Sessions |-> SessionDefaults]
    /\ error = ""
    /\ prev_guest = [s \in Sessions |-> <<>>]
    /\ today = 0
    /\ run = [s \in Sessions |-> [pc |-> "idle"]]

Init ==
    /\ InitApp
    /\ calc = ExampleCall

\* ------------------------------------------------------ dicts and files

\* d[k] = v on a Python dict.
Put(d, k, v) == [x \in DOMAIN d \cup {k} |-> IF x = k THEN v ELSE d[x]]
\* os.remove / del d[k].
Drop(d, k) == [x \in DOMAIN d \ {k} |-> d[x]]
\* os.replace(src, dst).
Replace(fs, src, dst) ==
    [p \in (DOMAIN fs \ {src}) \cup {dst} |-> IF p = dst THEN fs[src] ELSE fs[p]]

\* load_users_local (47-54): the dict of users.json, {} when json.load raises
\* (and when the file does not exist: the store is then the empty dict).
load_users_local == IF users = MalformedJson THEN << >> ELSE users

\* pd.read_csv(path) returns (True) or raises (False).
Parses(rows) == rows # MalformedCsv

\* DataFrame.to_csv: None and NaN are written as empty cells.
to_csv(df) ==
    [i \in DOMAIN df |->
        [c \in DOMAIN df[i] |->
            IF c \in Fields /\ df[i][c] \in {NoneCell, NaN} THEN EmptyCell ELSE df[i][c]]]

\* pd.read_csv: empty cells are read as NaN.
read_csv(rows) ==
    [i \in DOMAIN rows |->
        [c \in DOMAIN rows[i] |->
            IF c \in Fields /\ rows[i][c] = EmptyCell THEN NaN ELSE rows[i][c]]]

\* pd.concat([df_old, df_new], ignore_index=True).
concat(df_old, df_new) == df_old \o df_new

\* max() of a non-empty set of dates.
SetMax(S) == CHOOSE x \in S : \A y \in S : y <= x

\* The dates of the rows of one entry type, parsed (363-366).
DatesOf(dfl, entry_type) ==
    {to_date(dfl[i].date) : i \in {j \in DOMAIN dfl : dfl[j].entry_type = entry_type}}

\* A daily gate that filters the weekly rows.
has_daily_weeklyrows(path, d) ==
    /\ path \in DOMAIN files
    /\ LET daily == DatesOf(read_csv(files[path]), "weekly")
       IN  daily # {} /\ SetMax(daily) = d

\* A daily gate without the except branch: a file that cannot be parsed
\* withholds the form.
has_daily_in_notry(fs, path, d) ==
    /\ path \in DOMAIN fs
    /\ \/ ~Parses(fs[path])
       \/ LET daily == DatesOf(read_csv(fs[path]), "daily")
          IN  daily # {} /\ SetMax(daily) = d

\* has_daily over the files fs (358-365, 368-369): the file exists, read_csv
\* does not raise, and the last daily entry is dated d.
has_daily_in(fs, path, d) ==
    /\ path \in DOMAIN fs
    /\ Parses(fs[path])
    /\ LET daily == DatesOf(read_csv(fs[path]), "daily")
       IN  daily # {} /\ SetMax(daily) = d

\* has_weekly over the files fs (358-363, 366-369): the last weekly entry
\* has d's ISO week number.
has_weekly_in(fs, path, d) ==
    /\ path \in DOMAIN fs
    /\ Parses(fs[path])
    /\ LET weekly == DatesOf(read_csv(fs[path]), "weekly")
       IN  weekly # {} /\ isocalendar(SetMax(weekly)).week = isocalendar(d).week

\* has_daily (358-365): the last daily entry is dated today.
has_daily(path, d) == has_daily_in(files, path, d)

\* has_weekly (366-367): the last weekly entry has today's ISO week number.
has_weekly(path, d) == has_weekly_in(files, path, d)

\* ------------------------------------------------------------ the views

\* The onboarding view is rendered (169); otherwise the main view is.
Onboarding(s) == ~sess[s].logged_in /\ ~sess[s].guest
MainView(s) == ~Onboarding(s)

\* The user store gains a key only while it holds fewer than MaxUsers.
Room(k) ==
    k \in DOMAIN load_users_local \/ Cardinality(DOMAIN load_users_local) < MaxUsers

\* gen_friendly_guest_local (67-74): a friendly key the store does not hold;
\* when 200 draws all hit keys the store holds, an unchecked guest-anon key.
gen_friendly_guest_local(existing_users) ==
    (FriendlyGuests \ DOMAIN existing_users)
    \cup (IF FriendlyGuests \cap DOMAIN existing_users # {} THEN AnonGuests ELSE {})

GuestRecord ==
    [password |-> NoPassword, baseline |-> DefaultBaseline, is_guest |-> TRUE]

\* The main view's baseline and guest flag (340-343).
ProfileBaseline(username) ==
    IF username \in DOMAIN load_users_local
    THEN load_users_local[username].baseline ELSE DefaultBaseline
is_guest_profile(username) ==
    IF username \in DOMAIN load_users_local
    THEN load_users_local[username].is_guest ELSE FALSE

\* ------------------------------------------------------ onboarding view

\* "Continue as Guest" (174, 196-202).
ContinueAsGuest(s) ==
    /\ Onboarding(s)
    /\ run[s].pc = "idle"
    /\ \E guest \in gen_friendly_guest_local(load_users_local) :
          /\ Room(guest)
          /\ users' = Put(load_users_local, guest, GuestRecord)
          /\ sess' = [sess EXCEPT ![s].guest = TRUE, ![s].username = guest]
    /\ error' = ""
    /\ prev_guest' = [prev_guest EXCEPT ![s] = <<>>]
    /\ UNCHANGED <<files, today, run, calc>>

\* A login that accepts any password for a known username.
LoginAccepts_anypw(users_l, username, password) == username \in DOMAIN users_l

\* The local login test (234).
LoginAccepts(users_l, username, password) ==
    /\ username \in DOMAIN users_l
    /\ users_l[username].password = hash_password(password)

\* A rejected login that still records the typed username in the session.
LoginRejected_keepsname(s, username) ==
    /\ error' = "Invalid local login"
    /\ sess' = [sess EXCEPT ![s].username = username]
    /\ UNCHANGED <<users, files, prev_guest, today, run, calc>>

\* The else branch of the local login (238-239).
LoginRejected(s, username) ==
    /\ error' = "Invalid local login"
    /\ UNCHANGED <<users, files, sess, prev_guest, today, run, calc>>

\* login_form_local submitted (228-239).
Login(s, username, password) ==
    /\ Onboarding(s)
    /\ run[s].pc = "idle"
    /\ IF LoginAccepts(load_users_local, username, password)
       THEN /\ sess' = [sess EXCEPT ![s].logged_in = TRUE, ![s].username = username]
            /\ error' = ""
            /\ prev_guest' = [prev_guest EXCEPT ![s] = <<>>]
            /\ UNCHANGED <<users, files, today, run, calc>>
       ELSE LoginRejected(s, username)

\* The record a signup stores (313).
NewUserRecord(new_pass, baseline) ==
    [password |-> hash_password(new_pass), baseline |-> baseline, is_guest |-> FALSE]

\* The guest CSV migration of a signup (316-323).
MigrateGuestFile(s, new_user) ==
    IF sess[s].guest /\ sess[s].username # <<>>
       /\ get_user_file_local(sess[s].username) \in DOMAIN files
    THEN Replace(files, get_user_file_local(sess[s].username), get_user_file_local(new_user))
    ELSE files

\* create_local_user submitted (299-327).
Signup(s, new_user, new_pass, baseline) ==
    /\ Onboarding(s)
    /\ run[s].pc = "idle"
    /\ IF new_user \in DOMAIN load_users_local
       THEN /\ error' = "Username exists"
            /\ UNCHANGED <<users, files, sess, prev_guest, today, run, calc>>
       ELSE /\ Room(new_user)
            /\ users' = Put(load_users_local, new_user, NewUserRecord(new_pass, baseline))
            /\ files' = MigrateGuestFile(s, new_user)
            /\ sess' = [sess EXCEPT ![s].logged_in = TRUE, ![s].username = new_user,
                                    ![s].guest = FALSE]
            /\ error' = ""
            /\ prev_guest' = [prev_guest EXCEPT ![s] = <<>>]
            /\ UNCHANGED <<today, run, calc>>

\* ------------------------------------------------------------ main view

\* "Save baseline changes" (383-396).
SaveBaseline(s, new_baseline) ==
    /\ MainView(s)
    /\ run[s].pc = "idle"
    /\ IF sess[s].username \in DOMAIN load_users_local
       THEN /\ users' = [load_users_local EXCEPT ![sess[s].username].baseline = new_baseline]
            /\ error' = ""
       ELSE /\ error' = "Could not save baseline."
            /\ UNCHANGED users
    /\ UNCHANGED <<files, sess, prev_guest, today, run, calc>>

\* The entry of the daily form (407-417), dated d.
DailyEntry(inputs, baseline, d) ==
    [timestamp |-> isoformat(d), date |-> isoformat(d), entry_type |-> "daily",
     miles |-> inputs.miles, shower_minutes |-> inputs.shower_minutes,
     plastic_bottles |-> inputs.plastic_bottles,
     takeout_meals |-> NoneCell, laundry_loads |-> NoneCell,
     co2_saved |-> calculate_co2_savings(inputs, baseline, "daily")]

\* The entry of the weekly inputs (446-456), dated d.
WeeklyEntry(inputs, baseline, d) ==
    LET e == [miles |-> Get(baseline, "miles", 5),
              shower_minutes |-> Get(baseline, "shower_minutes", 10),
              plastic_bottles |-> Get(baseline, "plastic_bottles", 2),
              takeout_meals |-> inputs.takeout_meals,
              laundry_loads |-> inputs.laundry_loads]
    IN  [timestamp |-> isoformat(d), date |-> isoformat(d), entry_type |-> "weekly",
         miles |-> e.miles, shower_minutes |-> e.shower_minutes,
         plastic_bottles |-> e.plastic_bottles,
         takeout_meals |-> e.takeout_meals, laundry_loads |-> e.laundry_loads,
         co2_saved |-> calculate_co2_savings(e, baseline, "weekly")]

\* An append that puts the new row first.
df_concat_newfirst(fs, local_file, entry) ==
    IF local_file \in DOMAIN fs
    THEN IF Parses(fs[local_file])
         THEN concat(<<entry>>, read_csv(fs[local_file]))
         ELSE <<entry>>
    ELSE <<entry>>

\* The table an append writes back (423-431, 461-469): the file's rows as
\* read, then the new row; the new row alone when read_csv raises (428-429).
df_concat(fs, local_file, entry) ==
    IF local_file \in DOMAIN fs
    THEN IF Parses(fs[local_file])
         THEN concat(read_csv(fs[local_file]), <<entry>>)
         ELSE <<entry>>
    ELSE <<entry>>

\* The rows all entry files hold together.
RECURSIVE CountRows(_, _)
CountRows(fs, paths) ==
    IF paths = {} THEN 0
    ELSE LET p == CHOOSE x \in paths : TRUE
         IN  Len(fs[p]) + CountRows(fs, paths \ {p})
TotalRows == CountRows(files, DOMAIN files)

\* The clock while a run executes: date.today() at the gate (365, 367) and
\* again when the entry is built (409, 448), never earlier.
LaterToday == {today} \cup {d \in Days : d = today + 1}

\* "Save Daily Entry" (398-434) in one uninterrupted run.
SubmitDaily(s, inputs, d) ==
    /\ MainView(s)
    /\ run[s].pc = "idle"
    /\ ~has_daily(get_user_file_local(sess[s].username), today)
    /\ d \in LaterToday
    /\ TotalRows < MaxRows
    /\ LET local_file == get_user_file_local(sess[s].username)
           entry == DailyEntry(inputs, ProfileBaseline(sess[s].username), d)
       IN  files' = Put(files, local_file, to_csv(df_concat(files, local_file, entry)))
    /\ today' = d
    /\ error' = ""
    /\ UNCHANGED <<users, sess, prev_guest, run, calc>>

\* "Save Weekly Entry" (440-472) in one uninterrupted run.
SubmitWeekly(s, inputs, d) ==
    /\ MainView(s)
    /\ run[s].pc = "idle"
    /\ ~has_weekly(get_user_file_local(sess[s].username), today)
    /\ d \in LaterToday
    /\ TotalRows < MaxRows
    /\ LET local_file == get_user_file_local(sess[s].username)
           entry == WeeklyEntry(inputs, ProfileBaseline(sess[s].username), d)
       IN  files' = Put(files, local_file, to_csv(df_concat(files, local_file, entry)))
    /\ today' = d
    /\ error' = ""
    /\ UNCHANGED <<users, sess, prev_guest, run, calc>>

\* "Create Account & Save Progress" (543-546): st.rerun() and nothing else.
CreateAccountCTA(s) ==
    /\ MainView(s)
    /\ run[s].pc = "idle"
    /\ is_guest_profile(sess[s].username)
    /\ error' = ""
    /\ UNCHANGED <<users, files, sess, prev_guest, today, run, calc>>

\* "Delete my local data" (575-591).
DeleteData(s) ==
    /\ MainView(s)
    /\ run[s].pc = "idle"
    /\ IF get_user_file_local(sess[s].username) \in DOMAIN files
       THEN files' = Drop(files, get_user_file_local(sess[s].username))
       ELSE UNCHANGED files
    /\ error' = ""
    /\ UNCHANGED <<users, sess, prev_guest, today, run, calc>>

\* A logout that clears the flags and leaves the username in the session.
Logout_keepsname(s) ==
    /\ MainView(s)
    /\ run[s].pc = "idle"
    /\ sess' = [sess EXCEPT ![s].logged_in = FALSE, ![s].guest = FALSE]
    /\ prev_guest' = [prev_guest EXCEPT
                         ![s] = IF sess[s].guest THEN sess[s].username ELSE <<>>]
    /\ error' = ""
    /\ UNCHANGED <<users, files, today, run, calc>>

\* "Logout" (593-598).
Logout(s) ==
    /\ MainView(s)
    /\ run[s].pc = "idle"
    /\ sess' = [sess EXCEPT ![s] = [logged_in |-> FALSE, guest |-> FALSE,
                                    username |-> <<>>, profile_id |-> NoProfile]]
    /\ prev_guest' = [prev_guest EXCEPT
                         ![s] = IF sess[s].guest THEN sess[s].username ELSE <<>>]
    /\ error' = ""
    /\ UNCHANGED <<users, files, today, run, calc>>

\* The calendar moves on; no run shows a text in this step.
Tick ==
    /\ today < MaxDay
    /\ \E d \in Days : d > today /\ today' = d
    /\ error' = ""
    /\ UNCHANGED <<users, files, sess, prev_guest, run, calc>>

\* ------------------------------------------------------------ leaderboard

\* df[col].sum().
RECURSIVE SumCol(_, _)
SumCol(df, col) == IF df = <<>> THEN 0 ELSE Head(df)[col] + SumCol(Tail(df), col)

\* The loop over users_local.items() (523-532), in the dict's order: guests
\* are skipped, and so are users without an entry file and users on whose
\* file read_csv raises (531-532).
RECURSIVE LeaderboardRowsOf(_, _, _)
LeaderboardRowsOf(users_local, fs, order) ==
    IF order = <<>> THEN <<>>
    ELSE LET uname == Head(order)
             f == get_user_file_local(uname)
             rest == LeaderboardRowsOf(users_local, fs, Tail(order))
         IN  IF users_local[uname].is_guest THEN rest
             ELSE IF f \in DOMAIN fs /\ Parses(fs[f])
                  THEN <<<<uname, SumCol(read_csv(fs[f]), "co2_saved")>>>> \o rest
                  ELSE rest

LeaderboardRows(order) == LeaderboardRowsOf(load_users_local, files, order)

\* x put into a list sorted by total, largest first, before the first row
\* whose total is not above its own.
RECURSIVE InsertDesc(_, _)
InsertDesc(x, sorted) ==
    IF sorted = <<>> THEN <<x>>
    ELSE IF Head(sorted)[2] <= x[2] THEN <<x>> \o sorted
         ELSE <<Head(sorted)>> \o InsertDesc(x, Tail(sorted))

\* A sort that puts the smallest total first.
RECURSIVE sort_ascending(_)
sort_ascending(lb) ==
    IF lb = <<>> THEN <<>>
    ELSE LET rest == sort_ascending(Tail(lb))
             below == SelectSeq(rest, LAMBDA y : y[2] < Head(lb)[2])
             above == SelectSeq(rest, LAMBDA y : y[2] >= Head(lb)[2])
         IN  below \o <<Head(lb)>> \o above

\* leaderboard.sort(key=lambda x: x[1], reverse=True) (533): stable.
RECURSIVE sort_by_total_desc(_)
sort_by_total_desc(lb) ==
    IF lb = <<>> THEN <<>>
    ELSE InsertDesc(Head(lb), sort_by_total_desc(Tail(lb)))

\* The local leaderboard (521-533) for one iteration order of the user store.
Leaderboard(order) == sort_by_total_desc(LeaderboardRows(order))
LeaderboardOf(users_local, fs, order) ==
    sort_by_total_desc(LeaderboardRowsOf(users_local, fs, order))

\* The dashboard's table (482-495) over the files fs: the rows of the file,
\* none when it does not exist or read_csv raises; "No entries yet!" when
\* the table is empty, the total of co2_saved otherwise.
DashboardOf(fs, username) ==
    LET local_file == get_user_file_local(username)
        df == IF local_file \in DOMAIN fs
              THEN IF Parses(fs[local_file]) THEN read_csv(fs[local_file]) ELSE <<>>
              ELSE <<>>
    IN  IF df = <<>> THEN [info |-> "No entries yet!", total |-> 0]
        ELSE [info |-> "", total |-> SumCol(df, "co2_saved")]

\* The orders in which a dict of these keys may be iterated.
Orders(keys) ==
    {o \in [1..Cardinality(keys) -> keys] : \A i, j \in DOMAIN o : i # j => o[i] # o[j]}

\* ------------------------------------------------------------ the streak
\* The streak count is computed by no code of src/app.py; it is taken from
\* the documentation: "the count of consecutive calendar days ending today
\* that have at least one entry".

\* The dates of all rows of a table, parsed.
AllDates(df) == {to_date(df[i].date) : i \in DOMAIN df}

\* A count of the days up to d that have an entry, gaps or not.
RECURSIVE streak_from_nogap(_, _)
streak_from_nogap(dates, d) ==
    IF d < 0 THEN 0
    ELSE (IF d \in dates THEN 1 ELSE 0) + streak_from_nogap(dates, d - 1)

\* The days with an entry counted back from d, up to the first day without.
RECURSIVE streak_from(_, _)
streak_from(dates, d) ==
    IF d \in dates THEN 1 + streak_from(dates, d - 1) ELSE 0

\* The streak of the entry log at path, on day d.
streak(path, d) ==
    IF path \in DOMAIN files /\ Parses(files[path])
    THEN streak_from(AllDates(read_csv(files[path])), d)
    ELSE 0

\* ------------------------------------------- one session acting at a time

Next ==
    \/ \E s \in Sessions : ContinueAsGuest(s)
    \/ \E s \in Sessions, u \in RegNames \cup FriendlyGuests, p \in Passwords : Login(s, u, p)
    \/ \E s \in Sessions, u \in RegNames, b \in FormBaselines : Signup(s, u, "pw", b)
    \/ \E s \in Sessions, b \in FormBaselines : SaveBaseline(s, b)
    \/ \E s \in Sessions, i \in DailyInputs, d \in Days : SubmitDaily(s, i, d)
    \/ \E s \in Sessions, i \in WeeklyInputs, d \in Days : SubmitWeekly(s, i, d)
    \/ \E s \in Sessions : CreateAccountCTA(s)
    \/ \E s \in Sessions : DeleteData(s)
    \/ \E s \in Sessions : Logout(s)
    \/ Tick

Spec == Init /\ [][Next]_vars

\* ------------------------------------------------ sessions that interleave
\* Each session's script runs on its own thread.  Here a handler is cut at
\* its file accesses: the gate's read, the append's read, the write.

\* Runs that have passed a gate and not yet written.
InFlight == Cardinality({s \in Sessions : run[s].pc \in {"built", "read"}})
RaceRoom == TotalRows + InFlight < MaxRows

\* The main view up to the daily form's submit (340-369, 398-417): the gate
\* has found no daily row dated today, and the entry is built.
GateDaily(s, inputs, d) ==
    /\ MainView(s)
    /\ run[s].pc = "idle"
    /\ ~has_daily(get_user_file_local(sess[s].username), today)
    /\ d \in LaterToday
    /\ RaceRoom
    /\ run' = [run EXCEPT ![s] =
                  [pc |-> "built",
                   local_file |-> get_user_file_local(sess[s].username),
                   entry |-> DailyEntry(inputs, ProfileBaseline(sess[s].username), d)]]
    /\ today' = d
    /\ error' = ""
    /\ UNCHANGED <<users, files, sess, prev_guest, calc>>

\* The main view up to "Save Weekly Entry" (340-369, 440-456).
GateWeekly(s, inputs, d) ==
    /\ MainView(s)
    /\ run[s].pc = "idle"
    /\ ~has_weekly(get_user_file_local(sess[s].username), today)
    /\ d \in LaterToday
    /\ RaceRoom
    /\ run' = [run EXCEPT ![s] =
                  [pc |-> "built",
                   local_file |-> get_user_file_local(sess[s].username),
                   entry |-> WeeklyEntry(inputs, ProfileBaseline(sess[s].username), d)]]
    /\ today' = d
    /\ error' = ""
    /\ UNCHANGED <<users, files, sess, prev_guest, calc>>

\* The append's read and concat (421-431, 460-469).
ReadOld(s) ==
    /\ run[s].pc = "built"
    /\ run' = [run EXCEPT ![s] =
                  [pc |-> "read", local_file |-> run[s].local_file, entry |-> run[s].entry,
                   df_concat |-> df_concat(files, run[s].local_file, run[s].entry)]]
    /\ UNCHANGED <<users, files, sess, error, prev_guest, today, calc>>

\* A write that appends its row to what the file holds now.
WriteTarget_append(s) ==
    to_csv(df_concat(files, run[s].local_file, run[s].entry))

\* What df_concat.to_csv(local_file) stores (432, 470).
WriteTarget(s) == to_csv(run[s].df_concat)

\* The append's write and its st.success (432-433, 470-471).
WriteCsv(s) ==
    /\ run[s].pc = "read"
    /\ files' = Put(files, run[s].local_file, WriteTarget(s))
    /\ run' = [run EXCEPT ![s] =
                  [pc |-> "saved", local_file |-> run[s].local_file, entry |-> run[s].entry]]
    /\ UNCHANGED <<users, sess, error, prev_guest, today, calc>>

\* st.rerun() after a save (396, 434, 472).
Rerun(s) ==
    /\ run[s].pc \in {"saved", "baseline_saved"}
    /\ run' = [run EXCEPT ![s] = [pc |-> "idle"]]
    /\ UNCHANGED <<users, files, sess, error, prev_guest, today, calc>>

\* "Continue as Guest" up to the new record in the loaded dict (196-198).
GuestLoad(s) ==
    /\ Onboarding(s)
    /\ run[s].pc = "idle"
    /\ \E guest \in gen_friendly_guest_local(load_users_local) :
          /\ Room(guest)
          /\ run' = [run EXCEPT ![s] =
                        [pc |-> "guest_loaded", guest |-> guest,
                         users |-> Put(load_users_local, guest, GuestRecord)]]
    /\ UNCHANGED <<users, files, sess, error, prev_guest, today, calc>>

\* save_users_local and the session's switch to the guest (199-202).
GuestSave(s) ==
    /\ run[s].pc = "guest_loaded"
    /\ users' = run[s].users
    /\ sess' = [sess EXCEPT ![s].guest = TRUE, ![s].username = run[s].guest]
    /\ run' = [run EXCEPT ![s] = [pc |-> "idle"]]
    /\ error' = ""
    /\ prev_guest' = [prev_guest EXCEPT ![s] = <<>>]
    /\ UNCHANGED <<files, today, calc>>

\* "Save baseline changes" up to the changed dict (384-391).
BaselineLoad(s, new_baseline) ==
    /\ MainView(s)
    /\ run[s].pc = "idle"
    /\ sess[s].username \in DOMAIN load_users_local
    /\ run' = [run EXCEPT ![s] =
                  [pc |-> "baseline_loaded", new_baseline |-> new_baseline,
                   users |-> [load_users_local EXCEPT
                                 ![sess[s].username].baseline = new_baseline]]]
    /\ UNCHANGED <<users, files, sess, error, prev_guest, today, calc>>

\* A save that stores only its own user's record into the store as it is now.
UsersTarget_merge(s) ==
    [users EXCEPT ![sess[s].username].baseline = run[s].new_baseline]

\* What save_users_local(users_local) stores (392).
UsersTarget(s) == run[s].users

\* save_users_local and "Baseline saved locally." (392-393).
BaselineSave(s) ==
    /\ run[s].pc = "baseline_loaded"
    /\ users' = UsersTarget(s)
    /\ run' = [run EXCEPT ![s] =
                  [pc |-> "baseline_saved", new_baseline |-> run[s].new_baseline]]
    /\ error' = ""
    /\ UNCHANGED <<files, sess, prev_guest, today, calc>>

\* A registered user exists and nobody is signed in.
InitRace ==
    /\ users = [u \in {<<"bob">>} |-> NewUserRecord("pw", DefaultBaseline)]
    /\ files = << >>
    /\ sess = [s \in Sessions |-> SessionDefaults]
    /\ error = ""
    /\ prev_guest = [s \in Sessions |-> <<>>]
    /\ today = 0
    /\ run = [s \in Sessions |-> [pc |-> "idle"]]
    /\ calc = ExampleCall

NextRace ==
    \/ \E s \in Sessions : Login(s, <<"bob">>, "pw")
    \/ \E s \in Sessions : Logout(s)
    \/ \E s \in Sessions : GuestLoad(s)
    \/ \E s \in Sessions : GuestSave(s)
    \/ \E s \in Sessions, b \in FormBaselines \ {DefaultBaseline} : BaselineLoad(s, b)
    \/ \E s \in Sessions : BaselineSave(s)
    \/ \E s \in Sessions, i \in DailyInputs : GateDaily(s, i, today)
    \/ \E s \in Sessions, i \in WeeklyInputs : GateWeekly(s, i, today)
    \/ \E s \in Sessions : ReadOld(s)
    \/ \E s \in Sessions : WriteCsv(s)
    \/ \E s \in Sessions : Rerun(s)
    \/ Tick

SpecRace == InitRace /\ [][NextRace]_vars

\* ------------------------------------- files that cannot be parsed
\* users.json and the entry files are plain files of the working directory;
\* here their content may be damaged between two runs.

\* An entry file is left with content on which pd.read_csv raises.
CorruptCsv ==
    /\ \E path \in DOMAIN files :
          /\ Parses(files[path])
          /\ files' = [files EXCEPT ![path] = MalformedCsv]
    /\ error' = ""
    /\ UNCHANGED <<users, sess, prev_guest, today, run, calc>>

\* users.json is left with content on which json.load raises.
CorruptJson ==
    /\ users # MalformedJson
    /\ users' = MalformedJson
    /\ error' = ""
    /\ UNCHANGED <<files, sess, prev_guest, today, run, calc>>

\* The usernames typed into the forms here.
CorruptNames == {<<"bob">>, <<"a", "_", "b">>}

NextCorrupt ==
    \/ \E s \in Sessions : ContinueAsGuest(s)
    \/ \E s \in Sessions, u \in CorruptNames : Login(s, u, "pw")
    \/ \E s \in Sessions, u \in CorruptNames : Signup(s, u, "pw", DefaultBaseline)
    \/ \E s \in Sessions, b \in FormBaselines \ {DefaultBaseline} : SaveBaseline(s, b)
    \/ \E s \in Sessions, i \in DailyInputs : SubmitDaily(s, i, today)
    \/ \E s \in Sessions, i \in WeeklyInputs : SubmitWeekly(s, i, today)
    \/ \E s \in Sessions : Logout(s)
    \/ CorruptCsv
    \/ CorruptJson

SpecCorrupt == Init /\ [][NextCorrupt]_vars

\* ----------------------------------------------------- a user who returns
\* A registered user who comes back in a later year.

\* The calendar moves on by a whole ISO year: same week number, same day.
NextYear ==
    /\ today + DaysPerYear < DaysPerYear * (MaxYear + 1)
    /\ today' = today + DaysPerYear
    /\ error' = ""
    /\ UNCHANGED <<users, files, sess, prev_guest, run, calc>>

NextWeeks ==
    \/ \E s \in Sessions : Login(s, <<"bob">>, "pw")
    \/ \E s \in Sessions : Logout(s)
    \/ \E s \in Sessions, i \in DailyInputs : SubmitDaily(s, i, today)
    \/ \E s \in Sessions, i \in WeeklyInputs : SubmitWeekly(s, i, today)
    \/ \E s \in Sessions : DeleteData(s)
    \/ Tick
    \/ NextYear

SpecWeeks == InitRace /\ [][NextWeeks]_vars

\* ------------------------------------------------- the calculator alone

\* The calculator's inputs: dicts over all five fields or over the three
\* daily fields, values 0..MaxVal, and the documentation's example.
GridDicts == [Fields -> 0..MaxVal] \cup [DailyFields -> 0..MaxVal]
CalcInputs ==
    {Call(e, b, t) : e \in GridDicts, b \in GridDicts, t \in EntryTypes} \cup {ExampleCall}

InitCalc ==
    /\ InitApp
    /\ calc \in CalcInputs

\* The same call with one entry field raised by one, as long as the field is
\* not yet above the baseline.
RaiseField(f) ==
    /\ f \in DOMAIN calc.entry
    /\ calc.entry[f] <= Get(calc.baseline, f, 0)
    /\ calc' = [Call([calc.entry EXCEPT ![f] = @ + 1], calc.baseline, calc.entry_type)
                  EXCEPT !.before = calc.out]
    /\ UNCHANGED app_vars

\* The same entry against another baseline value.
SetBaseline(f, v) ==
    /\ f \in DOMAIN calc.baseline
    /\ calc' = Call(calc.entry, [calc.baseline EXCEPT ![f] = v], calc.entry_type)
    /\ UNCHANGED app_vars

\* The same entry and baseline as the other entry type.
SetType(t) ==
    /\ t # calc.entry_type
    /\ calc' = Call(calc.entry, calc.baseline, t)
    /\ UNCHANGED app_vars

NextCalc ==
    \/ \E f \in Fields : RaiseField(f)
    \/ \E f \in Fields, v \in 0..MaxVal : SetBaseline(f, v)
    \/ \E t \in EntryTypes : SetType(t)

SpecCalc == InitCalc /\ [][NextCalc]_vars

\* ------------------------------------------------------------ C2, C3, C4

\* The emission factor of a field, in 1/140 lb per unit; a laundry load
\* counts a seventh of 2.5 lb.
FactorOf(f) ==
    CASE f = "miles" -> 126
      [] f = "shower_minutes" -> 7
      [] f = "plastic_bottles" -> 14
      [] f = "takeout_meals" -> 70
      [] f = "laundry_loads" -> 50

RelevantFields(entry_type) ==
    IF entry_type = "daily" THEN DailyFields ELSE Fields

RECURSIVE SumSaved(_, _, _)
SumSaved(entry, baseline, fs) ==
    IF fs = {} THEN 0
    ELSE LET f == CHOOSE x \in fs : TRUE
             d == Get(baseline, f, 0) - Get(entry, f, 0)
         IN  (IF d > 0 THEN d * FactorOf(f) ELSE 0) + SumSaved(entry, baseline, fs \ {f})

\* C2: the result of calculate_co2_savings is the sum, over the fields of
\* the entry type (daily: miles, shower, plastic; weekly: all five), of
\* max(baseline[f] - entry[f], 0) * factor[f], the laundry difference
\* divided by 7; it is never negative, and it is 0 when no entry field is
\* below its baseline.
C2_SavingsFormula ==
    /\ calc.out = SumSaved(calc.entry, calc.baseline, RelevantFields(calc.entry_type))
    /\ calc.out >= 0
    /\ (\A f \in Fields : Get(calc.entry, f, 0) >= Get(calc.baseline, f, 0)) => calc.out = 0

\* A weekly call in which one field is above its baseline (clamped), the
\* laundry term counts, and the result is 1 takeout meal + 1 laundry load.
C2_Witness ==
    /\ calc.entry_type = "weekly"
    /\ DOMAIN calc.entry = Fields
    /\ calc.entry["miles"] > Get(calc.baseline, "miles", 0)
    /\ Get(calc.baseline, "laundry_loads", 0) > calc.entry["laundry_loads"]
    /\ calc.out = 120

IsExample ==
    /\ calc.entry = [miles |-> 2, shower_minutes |-> 8, plastic_bottles |-> 1]
    /\ calc.baseline = [miles |-> 5, shower_minutes |-> 10, plastic_bottles |-> 2]
    /\ calc.entry_type = "daily"

\* C3 as stated: baseline {miles 5, shower 10, plastic 2} and daily entry
\* {miles 2, shower 8, plastic 1} give 2.8 lb.
C3_Original == IsExample => calc.out = Tenths(28)

\* C3 as amended: baseline {miles 5, shower 10, plastic 2} and daily entry
\* {miles 2, shower 8, plastic 1} give (3 x 0.9) + (2 x 0.05) + (1 x 0.1),
\* which is 2.9 lb.
C3_ExampleIs29 == IsExample => calc.out = Tenths(29)

\* The example has been computed.
C3_Witness == IsExample /\ calc.out = calc.before

\* C4: raising one entry field, the baseline, the entry type and the other
\* fields fixed, never raises the result: the result after a raise is at
\* most the result before it.
C4_Monotone == calc.out <= calc.before

\* A raise that lowered the result, and a raise above the baseline that
\* left it as it was.
C4_Witness == calc.out < calc.before
C4_WitnessFlat ==
    /\ calc.out = calc.before
    /\ \E f \in DOMAIN calc.entry : calc.entry[f] = Get(calc.baseline, f, 0) + 1

\* -------------------------------------------------------------------- C1

\* The ISO week of a row: ISO year and week number.
WeekOf(row) ==
    <<isocalendar(to_date(row.date)).year, isocalendar(to_date(row.date)).week>>

\* C1: with the sessions running their handlers one at a time and the clock
\* never going back, every entry file holds at most one 'daily' row per
\* calendar date and at most one 'weekly' row per ISO week (year and week).
C1_OnePerPeriod ==
    \A p \in DOMAIN files :
        \A i, j \in DOMAIN files[p] :
            (i # j /\ files[p][i].entry_type = files[p][j].entry_type) =>
                IF files[p][i].entry_type = "daily"
                THEN files[p][i].date # files[p][j].date
                ELSE WeekOf(files[p][i]) # WeekOf(files[p][j])

\* A session in the main view whose file holds today's daily row and this
\* week's weekly row: both forms are withheld.
C1_Witness ==
    \E s \in Sessions :
        /\ MainView(s)
        /\ has_daily(get_user_file_local(sess[s].username), today)
        /\ has_weekly(get_user_file_local(sess[s].username), today)

\* Two daily rows of one file in the same ISO week, on different dates.
C1_WitnessTwoDays ==
    \E p \in DOMAIN files :
        \E i, j \in DOMAIN files[p] :
            /\ i # j
            /\ files[p][i].entry_type = "daily" /\ files[p][j].entry_type = "daily"
            /\ WeekOf(files[p][i]) = WeekOf(files[p][j])

\* -------------------------------------------------------------------- C5

\* The session creates an account in this step: it is in the onboarding view
\* or a guest before, logged in after, under a username new to the store.
CreatesAccount(s) ==
    /\ ~sess[s].logged_in
    /\ sess'[s].logged_in
    /\ sess'[s].username \notin DOMAIN users
    /\ sess'[s].username \in DOMAIN users'

\* The guest the session is, or was until it logged out.
GuestOf(s) == IF sess[s].guest THEN sess[s].username ELSE prev_guest[s]

\* C5 as stated: when a guest's session creates an account, the guest's
\* entry file is gone and the new user's file holds the guest's rows, the
\* new record's baseline is the guest's, and the guest's record is removed.
C5_Original ==
    [][\A s \in Sessions :
          (CreatesAccount(s) /\ GuestOf(s) # <<>>) =>
              LET g == GuestOf(s)
                  n == sess'[s].username
              IN  /\ get_user_file_local(g) \notin DOMAIN files'
                  /\ (get_user_file_local(g) \in DOMAIN files =>
                        /\ get_user_file_local(n) \in DOMAIN files'
                        /\ files'[get_user_file_local(n)] = files[get_user_file_local(g)])
                  /\ users'[n].baseline = users[g].baseline
                  /\ g \notin DOMAIN users']_vars

\* -------------------------------------------------------------------- C6

\* C6 as stated: two distinct usernames of the user store never share an
\* entry file.
C6_Original ==
    \A u, v \in DOMAIN users :
        u # v => get_user_file_local(u) # get_user_file_local(v)

\* -------------------------------------------------------------------- C9

\* C9: whatever the order of the user store, the leaderboard lists no guest,
\* each listed total is the sum of co2_saved over the rows of that user's
\* file, and the totals never increase down the list.
C9_Leaderboard ==
    \A order \in Orders(DOMAIN users) :
        LET lb == Leaderboard(order)
        IN  /\ \A i \in DOMAIN lb :
                  /\ lb[i][1] \in DOMAIN users
                  /\ ~users[lb[i][1]].is_guest
                  /\ lb[i][2] = SumCol(files[get_user_file_local(lb[i][1])], "co2_saved")
            /\ \A i, j \in DOMAIN lb : i < j => lb[i][2] >= lb[j][2]

\* A guest and a registered user both have rows, the guest's sum is the
\* larger one, and the leaderboard lists the registered user alone.
C9_Witness ==
    \E g, u \in DOMAIN users :
        /\ users[g].is_guest /\ ~users[u].is_guest
        /\ get_user_file_local(g) \in DOMAIN files
        /\ get_user_file_local(u) \in DOMAIN files
        /\ SumCol(files[get_user_file_local(g)], "co2_saved")
              > SumCol(files[get_user_file_local(u)], "co2_saved")
        /\ \A order \in Orders(DOMAIN users) :
              Leaderboard(order) =
                  <<<<u, SumCol(files[get_user_file_local(u)], "co2_saved")>>>>

\* Two registered users with different totals are listed, whichever comes
\* first in the store.
C9_WitnessSorted ==
    \E order \in Orders(DOMAIN users) :
        /\ Len(LeaderboardRows(order)) = 2
        /\ LeaderboardRows(order)[1][2] < LeaderboardRows(order)[2][2]

\* ------------------------------------------------------------------- C10

\* C10: a step that shows "Invalid local login" or "Username exists" leaves
\* every session's state, the user store and every entry file as they were;
\* and a login whose username is not in the store or whose password hashes
\* to something else than the stored hash is a step that shows "Invalid
\* local login", a signup under a username of the store one that shows
\* "Username exists".
C10_RejectedChangesNothing ==
    [][/\ (error' \in {"Invalid local login", "Username exists"}) =>
             UNCHANGED <<sess, users, files>>
       /\ \/ error' = "Invalid local login" /\ UNCHANGED <<sess, users, files>>
          \/ \A s \in Sessions :
                Onboarding(s) =>
                   \A u \in RegNames \cup FriendlyGuests, p \in Passwords :
                      (u \notin DOMAIN users \/ users[u].password # hash_password(p))
                         => ~Login(s, u, p)
       /\ \/ error' = "Username exists" /\ UNCHANGED <<sess, users, files>>
          \/ \A s \in Sessions :
                Onboarding(s) =>
                   \A u \in DOMAIN users \cap RegNames, b \in FormBaselines :
                      ~Signup(s, u, "pw", b)]_vars

\* A login was just rejected while the store holds a record with a
\* password and an entry file exists.
C10_Witness ==
    /\ error = "Invalid local login"
    /\ \E u \in DOMAIN users : users[u].password # NoPassword
    /\ DOMAIN files # {}

\* A signup was just rejected.
C10_WitnessSignup == error = "Username exists" /\ DOMAIN files # {}

\* -------------------------------------------------------------------- C7

\* The rows of a file, none when it does not exist.
RowsOf(path) == IF path \in DOMAIN files THEN files[path] ELSE <<>>
RowsIn(rows) == {rows[i] : i \in DOMAIN rows}

\* C7: no write looks at what the file holds when it is written.  An
\* entry write leaves in the file the rows its session read before, then the
\* session's own row; a users write leaves in the store the dict its session
\* loaded before, with the session's own change.  Rows and records that
\* other sessions stored in between are dropped.
C7_WholeFileRewrite ==
    [][\A s \in Sessions :
          /\ (run[s].pc = "read" /\ run'[s].pc = "saved") =>
                files'[run[s].local_file] = to_csv(run[s].df_concat)
          /\ (run[s].pc = "baseline_loaded" /\ run'[s].pc = "baseline_saved") =>
                users' = run[s].users
          /\ (run[s].pc = "guest_loaded" /\ run'[s].pc = "idle") =>
                users' = run[s].users]_vars

\* Lost update on an entry file: a session's run is at "entry saved!", and
\* its row is not in its file.
C7_Witness ==
    \E s \in Sessions :
        /\ run[s].pc = "saved"
        /\ to_csv(<<run[s].entry>>)[1] \notin RowsIn(RowsOf(run[s].local_file))

\* Lost update on the users file: a session's run is at "Baseline saved
\* locally.", and the store holds another baseline for its user.
C7_WitnessUsers ==
    \E s \in Sessions :
        /\ run[s].pc = "baseline_saved"
        /\ sess[s].username \in DOMAIN users
        /\ users[sess[s].username].baseline # run[s].new_baseline

\* Lost update on the users file: a guest session whose record is gone.
C7_WitnessGuest ==
    \E s \in Sessions : sess[s].guest /\ sess[s].username \notin DOMAIN users

\* -------------------------------------------------------------------- C8

\* The 'daily' rows of a file dated d.
DailyRowsOn(path, d) ==
    {i \in DOMAIN files[path] :
        files[path][i].entry_type = "daily" /\ to_date(files[path][i].date) = d}

\* C8: the one-per-date limit is a run's gate and nothing else.  A run
\* builds a daily entry only when its gate found no 'daily' row dated today
\* in the user's file; the write that follows stores the row whatever the
\* file holds by then, so that rows of runs that passed their gates together
\* end up side by side.
C8_GateOnly ==
    [][\A s \in Sessions :
          /\ (run[s].pc = "idle" /\ run'[s].pc = "built"
                  /\ run'[s].entry.entry_type = "daily") =>
                (run'[s].local_file \in DOMAIN files =>
                    DailyRowsOn(run'[s].local_file, today) = {})
          /\ (run[s].pc = "read" /\ run'[s].pc = "saved") =>
                to_csv(<<run[s].entry>>)[1] \in RowsIn(files'[run[s].local_file])]_vars

\* Two sessions of one user are signed in and the user's file holds two
\* 'daily' rows dated today.
C8_Witness ==
    \E s, t \in Sessions :
        /\ s # t
        /\ sess[s].logged_in /\ sess[t].logged_in
        /\ sess[s].username = sess[t].username
        /\ get_user_file_local(sess[s].username) \in DOMAIN files
        /\ Cardinality(DailyRowsOn(get_user_file_local(sess[s].username), today)) = 2

\* ------------------------------------------------------------------- C11

\* The entry files with every file that cannot be parsed holding no records,
\* and with every such file absent.
EmptiedFiles == [p \in DOMAIN files |-> IF Parses(files[p]) THEN files[p] ELSE <<>>]
PresentFiles == [p \in {q \in DOMAIN files : Parses(files[q])} |-> files[p]]

\* What the main view of a session reads from the entry files fs: the two
\* gates, the dashboard, and the tables the two submissions would write.
MainViewReads(fs, s) ==
    LET p == get_user_file_local(sess[s].username)
        b == ProfileBaseline(sess[s].username)
    IN  [has_daily |-> has_daily_in(fs, p, today),
         has_weekly |-> has_weekly_in(fs, p, today),
         dashboard |-> DashboardOf(fs, sess[s].username),
         daily |-> {to_csv(df_concat(fs, p, DailyEntry(i, b, today))) : i \in DailyInputs},
         weekly |-> {to_csv(df_concat(fs, p, WeeklyEntry(i, b, today))) : i \in WeeklyInputs}]

\* The leaderboards the store and the entry files fs may show.
LeaderboardsOf(fs) ==
    {LeaderboardOf(load_users_local, fs, order) : order \in Orders(DOMAIN load_users_local)}

\* A step taken while users.json cannot be parsed is the step an empty store
\* allows: no session gets logged in unless the step stores its record, a
\* step that writes the store leaves in it the one new record of the session
\* that took it, and a baseline cannot be saved.
StepOnMalformedJson ==
    users = MalformedJson =>
        /\ \A s \in Sessions :
              (~sess[s].logged_in /\ sess'[s].logged_in) =>
                  /\ users' # users
                  /\ users'[sess'[s].username].password # NoPassword
        /\ users' # users =>
              \E s \in Sessions :
                  /\ sess'[s] # sess[s]
                  /\ DOMAIN users' = {sess'[s].username}
        /\ \A s \in Sessions, b \in FormBaselines : ~(SaveBaseline(s, b) /\ error' = "")

\* A step that writes an entry file that cannot be parsed leaves in it the
\* one new row.
StepOnMalformedCsv ==
    \A p \in DOMAIN files :
        (~Parses(files[p]) /\ p \in DOMAIN files' /\ files'[p] # files[p]) =>
            /\ Parses(files'[p])
            /\ Len(files'[p]) = 1

\* C11 as stated: a file that cannot be parsed is read as a file without
\* records by every operation: the gates, the submissions, the dashboard and
\* the leaderboard read the same from the files as they are and from the
\* files with the damaged ones emptied, and the steps on a damaged users.json
\* or entry file are those of an empty one.
C11_Original ==
    /\ [](\/ EmptiedFiles = files
          \/ /\ \A s \in Sessions :
                    MainViewReads(files, s) = MainViewReads(EmptiedFiles, s)
             /\ LeaderboardsOf(files) = LeaderboardsOf(EmptiedFiles))
    /\ [][StepOnMalformedJson /\ StepOnMalformedCsv]_vars

\* C11 as amended: as stated for the gates, the submissions, the dashboard
\* and the users file; the leaderboard reads a user's entry file that cannot
\* be parsed as a file that does not exist (the user is left out), not as a
\* file without records (the user would be listed with total 0).
C11_MalformedAsEmptyOrAbsent ==
    /\ [](\/ EmptiedFiles = files
          \/ /\ \A s \in Sessions :
                    MainViewReads(files, s) = MainViewReads(EmptiedFiles, s)
             /\ LeaderboardsOf(files) = LeaderboardsOf(PresentFiles))
    /\ [][StepOnMalformedJson /\ StepOnMalformedCsv]_vars

\* A session in the main view whose entry file cannot be parsed, while
\* users.json cannot be parsed either.
C11_Witness ==
    /\ users = MalformedJson
    /\ \E s \in Sessions :
          /\ MainView(s)
          /\ get_user_file_local(sess[s].username) \in DOMAIN files
          /\ ~Parses(files[get_user_file_local(sess[s].username)])

\* A registered user whose entry file cannot be parsed.
C11_WitnessLeaderboard ==
    \E u \in DOMAIN load_users_local :
        /\ ~load_users_local[u].is_guest
        /\ get_user_file_local(u) \in DOMAIN files
        /\ ~Parses(files[get_user_file_local(u)])

\* A signup has rewritten a users.json that could not be parsed: two
\* sessions are logged in, and the store holds the record of one alone.
C11_WitnessRecovered ==
    \E s, t \in Sessions :
        /\ sess[s].logged_in /\ sess[t].logged_in
        /\ users # MalformedJson
        /\ sess[s].username \notin DOMAIN users
        /\ sess[t].username \in DOMAIN users

\* ------------------------------------------------------------------- C12

IsPrefix(a, b) == Len(a) <= Len(b) /\ SubSeq(b, 1, Len(a)) = a

\* The step submits an entry: a daily or a weekly submission of some session.
IsSubmission ==
    /\ UNCHANGED <<users, sess>>
    /\ error' = ""
    /\ \E s \in Sessions :
          /\ MainView(s)
          /\ \/ \E i \in DailyInputs : SubmitDaily(s, i, today')
             \/ \E i \in WeeklyInputs : SubmitWeekly(s, i, today')

\* The step adds exactly one row, at the end of one file, and leaves the
\* other files as they were.
AppendsOneRow ==
    \E p \in DOMAIN files' :
        /\ Len(files'[p]) = Len(RowsOf(p)) + 1
        /\ IsPrefix(RowsOf(p), files'[p])
        /\ \A q \in (DOMAIN files \cup DOMAIN files') \ {p} :
              q \in DOMAIN files /\ q \in DOMAIN files' /\ files'[q] = files[q]

\* The step is "Delete my local data" of a session whose entry file exists:
\* the file is gone, the other files are as they were.
DeletesOwnFile ==
    \E s \in Sessions :
        /\ MainView(s)
        /\ get_user_file_local(sess[s].username) \in DOMAIN files
        /\ files' = Drop(files, get_user_file_local(sess[s].username))
        /\ UNCHANGED <<users, sess>>

\* C12 as stated: every entry file of a state is, in the next state, still
\* there with its rows as a prefix, and a submission adds exactly one row at
\* the end of one file.
C12_Original ==
    [][/\ \A p \in DOMAIN files : p \in DOMAIN files' /\ IsPrefix(files[p], files'[p])
       /\ AppendsOneRow \/ ~IsSubmission]_vars

\* C12 as amended: the same for every step but "Delete my local data",
\* which removes the whole entry file of the session's user: a step either
\* leaves the files as they are, or adds one row at the end of one file, or
\* deletes the file of the session that takes it; and a submission adds
\* exactly one row at the end of one file.
C12_AppendOnlyButDelete ==
    [][/\ \/ UNCHANGED files
          \/ AppendsOneRow
          \/ DeletesOwnFile
       /\ AppendsOneRow \/ ~IsSubmission]_vars

\* An entry file with two rows: a row was added to a file that had one.
C12_Witness == \E p \in DOMAIN files : Len(files[p]) = 2

\* ------------------------------------------------------------------- C13

\* The dates on which the file at path has an entry.
EntryDays(path) == {to_date(files[path][i].date) : i \in DOMAIN files[path]}

\* C13: when an entry file has an entry on each of the N days ending today
\* and none on the day before those, its streak is N; and a day without an
\* entry ends the streak: the streak never reaches back to such a day.
C13_Streak ==
    \A p \in DOMAIN files :
        /\ \A N \in 1..(MaxDay + 1) :
              (/\ \A k \in 0..(N - 1) : (today - k) \in EntryDays(p)
               /\ (today - N) \notin EntryDays(p))
                  => streak(p, today) = N
        /\ \A g \in 0..today : g \notin EntryDays(p) => streak(p, today) <= today - g

\* A log with entries today and yesterday: the streak is 2.
C13_Witness ==
    \E p \in DOMAIN files :
        /\ {today, today - 1} \subseteq EntryDays(p)
        /\ streak(p, today) = 2

\* A log with entries today and two days ago and none yesterday: the streak
\* is 1.
C13_WitnessGap ==
    \E p \in DOMAIN files :
        /\ {today, today - 2} \subseteq EntryDays(p)
        /\ (today - 1) \notin EntryDays(p)
        /\ streak(p, today) = 1

\* ------------------------------------------------------------------- C14

\* The 'weekly' rows of a file dated in the ISO week of day d: same ISO
\* year, same week number.
WeeklyRowsInWeekOf(path, d) ==
    {i \in DOMAIN files[path] :
        /\ files[path][i].entry_type = "weekly"
        /\ WeekOf(files[path][i]) = <<isocalendar(d).year, isocalendar(d).week>>}

\* C14 as stated: in the main view has_weekly is true exactly when the
\* user's entry file holds a 'weekly' row dated in today's ISO week (year
\* and week number); a weekly row of the same week number in another year
\* does not withhold the form.
C14_Original ==
    \A s \in Sessions :
        MainView(s) =>
            LET p == get_user_file_local(sess[s].username)
            IN  has_weekly(p, today)
                    <=> (p \in DOMAIN files /\ WeeklyRowsInWeekOf(p, today) # {})

\* ------------------------------------------------------------------- C15

\* The condition under which the run renders the onboarding view with the
\* create-account form (169).
CreateFormShown(s) == ~sess[s].logged_in /\ ~sess[s].guest

\* C15 as stated: pressing "Create Account & Save Progress" in a guest
\* session leads to the onboarding view with the create-account form while
\* the session still names the guest (guest true, the guest's username).
C15_Original ==
    [][\A s \in Sessions :
          CreateAccountCTA(s) =>
              /\ CreateFormShown(s)'
              /\ sess'[s].guest
              /\ sess'[s].username = sess[s].username
              /\ sess'[s].username # <<>>]_vars

\* What the code does instead: the press leaves the session in the main
\* view, and no run of create_local_user ever finds guest true.
C15_PressStaysInMainView ==
    [][\A s \in Sessions :
          /\ CreateAccountCTA(s) => (MainView(s)' /\ sess'[s] = sess[s])
          /\ CreatesAccount(s) => ~sess[s].guest]_vars

\* ------------------------------------------------------------------- C16

\* The session keys of lines 155-158 never show logged_in and guest both
\* true, and a session with both false holds the defaults.
SessionStateInv ==
    \A s \in Sessions :
        /\ ~(sess[s].logged_in /\ sess[s].guest)
        /\ (~sess[s].logged_in /\ ~sess[s].guest) =>
               (sess[s].username = <<>> /\ sess[s].profile_id = NoProfile)

\* A step in which session s leaves the main view: its logout.
LogsOut(s) == MainView(s) /\ Onboarding(s)'

\* C16: after any sequence of guest creation, login, signup, failed login,
\* failed signup and logout, logged_in and guest are never both true, and
\* when both are false username is "" and profile_id is None; a logout
\* leaves the session with exactly the defaults it started with and changes
\* neither the user store nor any entry file.
C16_SessionState ==
    /\ []SessionStateInv
    /\ [][\A s \in Sessions :
             LogsOut(s) => (sess'[s] = SessionDefaults /\ UNCHANGED <<users, files>>)]_vars

\* A guest who saved an entry and logged out: the session is back at the
\* defaults while the guest's record and file are still there.
C16_Witness ==
    \E s \in Sessions :
        /\ Onboarding(s)
        /\ prev_guest[s] # <<>>
        /\ prev_guest[s] \in DOMAIN users
        /\ get_user_file_local(prev_guest[s]) \in DOMAIN files

\* A registered user who logged in after a rejected login and a rejected
\* signup.
C16_WitnessLoggedIn ==
    \E s \in Sessions : sess[s].logged_in /\ ~sess[s].guest /\ sess[s].username # <<>>

\* ------------------------------------------------------------------- C17

\* The usernames a login form may be given: registered names and guest keys.
LoginNames == RegNames \cup FriendlyGuests \cup AnonGuests

\* A login step succeeds only for a stored username whose stored password
\* is the SHA-256 hash of the password supplied; in particular never for a
\* guest record, whose password is None.
LoginNeedsPassword ==
    \A s \in Sessions, u \in LoginNames, pw \in Passwords :
        (Login(s, u, pw) /\ sess'[s].logged_in) =>
            /\ u \in DOMAIN users
            /\ users[u].password = hash_password(pw)
            /\ ~users[u].is_guest

\* A session comes to hold a guest profile only in the step that creates
\* the guest's record.
GuestOnlyFromCreator ==
    \A s \in Sessions :
        (/\ sess'[s].username # sess[s].username
         /\ sess'[s].username \in DOMAIN users'
         /\ users'[sess'[s].username].is_guest)
            => sess'[s].username \notin DOMAIN users

\* C17 as stated: a local login succeeds only for a stored username whose
\* password hash is the hash of the supplied password, never for a guest
\* record, so a guest profile is reachable only from the session that
\* created it.
C17_Original == [][LoginNeedsPassword /\ GuestOnlyFromCreator]_vars

\* The part of C17 about the login form alone.
C17_LoginOnly == [][LoginNeedsPassword]_vars

====
